---- MODULE Spec2Model ----
(***************************************************************************)
(* A model of gzp's ParGz (src/src/lib.rs): a Write implementation that     *)
(* buffers the caller's bytes, ships blocks over a bounded channel to a    *)
(* background thread, compresses every block as an independent gzip member *)
(* on a blocking pool and writes the members, in order, to the underlying  *)
(* writer.                                                                 *)
(*                                                                         *)
(* Four threads of control are modelled, each with its own position:       *)
(*   fe_pc  the caller of write / flush / finish (or the drop of ParGz)    *)
(*   d_pc   the `compressor` task of ParGz::run (the dispatcher)           *)
(*   w_pc   the `writer_task` of ParGz::run                                *)
(*   c_pc   the body of rt.block_on in ParGz::run and the thread's exit    *)
(* Compression jobs resolve one at a time, in any order.                   *)
(*                                                                         *)
(* The k-th byte ever passed to write carries the value k % 256, so that a *)
(* lost, duplicated or reordered byte changes the decoded output.          *)
(*                                                                         *)
(* The underlying writer W is any Write + Send: here it accepts every      *)
(* write_all whole, or fails on its fail_on-th write_all accepting nothing;*)
(* its flush succeeds. GzEncoder reads from a slice and does not fail, the *)
(* runtime is taken to build, and no task panics.                          *)
(***************************************************************************)
EXTENDS Naturals, Sequences, FiniteSets

\* ------------------------------------------------------------- bounds
\* num_threads ranges over 1..MaxThreads
MaxThreads == 2
\* buffer_size ranges over 1..MaxBufferSize
MaxBufferSize == 2
\* the total number of bytes the caller passes to write
MaxBytes == 4
\* the longest slice one write call passes
MaxSlice == 3
\* the number of explicit flush calls
MaxFlush == 1
\* the underlying writer fails on its k-th write_all, k in 1..MaxFailOn, or never
MaxFailOn == 1

VARIABLES
    num_threads,   \* ParGzBuilder.num_threads, frozen by build
    buffer_size,   \* ParGz.buffer_size
    fail_on,       \* the write_all call the underlying writer fails on (0: never)
    buffer,        \* ParGz.buffer
    fe_pc,         \* where the caller is
    b,             \* the block the caller is sending (local of write / flush)
    buf_len,       \* buf.len() of the write call in progress
    ret,           \* what the last call returned
    ingest,        \* the messages in the channel tx -> rx
    d_pc,          \* where the compressor task is
    task,          \* the JoinHandle the compressor task is sending
    d_res,         \* the compressor task's result
    emit,          \* the messages in the channel out_sender -> out_receiver
    w_pc,          \* where the writer task is
    w_chunk,       \* the JoinHandle the writer task is awaiting
    w_res,         \* the writer task's result
    c_pc,          \* where the coordinator (rt.block_on, then the thread) is
    c_res,         \* the value ParGz::run returns
    out,           \* the bytes the underlying writer has accepted
    write_alls,    \* the number of write_all calls made on the underlying writer
    flushes,       \* the number of flush calls made on the underlying writer
    detached,      \* running compression jobs whose JoinHandle was dropped
    nbytes,        \* history: the number of bytes passed to write so far
    nflush,        \* history: the number of flush calls so far
    flush_at,      \* history: the values of nbytes at which flush was called
    oversize,      \* history: some write passed a slice longer than buffer_size
    sent           \* history: the blocks the ingest channel accepted, in order

vars == <<num_threads, buffer_size, fail_on, buffer, fe_pc, b, buf_len, ret,
          ingest, d_pc, task, d_res, emit, w_pc, w_chunk, w_res, c_pc, c_res,
          out, write_alls, flushes, detached, nbytes, nflush, flush_at, oversize,
          sent>>

fe_vars == <<buffer, fe_pc, b, buf_len, ret, nbytes, nflush, flush_at,
            oversize>>
d_vars == <<d_pc, task, d_res>>
w_vars == <<w_pc, w_chunk, w_res>>
c_vars == <<c_pc, c_res>>
sink_vars == <<out, write_alls, flushes>>
cfg_vars == <<num_threads, buffer_size, fail_on>>

\* ------------------------------------------------------------- bytes
ByteOf(k) == k % 256

\* the slice of n bytes that follows the first k bytes of the caller's input
Slice(k, n) == [i \in 1..n |-> ByteOf(k + i)]

\* all bytes passed to write so far, in call order
Written == Slice(0, nbytes)

RECURSIVE Sum(_)
Sum(s) == IF s = <<>> THEN 0 ELSE Head(s) + Sum(Tail(s))

RECURSIVE Concat(_)
Concat(ss) == IF ss = <<>> THEN <<>> ELSE Head(ss) \o Concat(Tail(ss))

IsPrefix(s, t) == Len(s) <= Len(t) /\ SubSeq(t, 1, Len(s)) = s

\* ------------------------------------------------------------- block codec
\* One gzip member per chunk: the two magic bytes, the stored length, the
\* chunk's bytes, a checksum of the uncompressed bytes and ISIZE.
GzId1 == 31
GzId2 == 139
\* the checksum of the uncompressed bytes, 16 bits wide here
Crc(chunk) == Sum(chunk) % 65536
\* the uncompressed length mod 2^32; a length here is far below 2^31, the
\* largest number TLC holds, so the reduction is the identity
ISize(chunk) == Len(chunk)

\* (defect: an empty chunk is compressed to nothing instead of an empty member)
GzEncodeSkipsEmpty(chunk) ==
    IF chunk = <<>> THEN <<>>
    ELSE <<GzId1, GzId2, Len(chunk)>> \o chunk \o <<Crc(chunk), ISize(chunk)>>
GzEncode(chunk) ==
    <<GzId1, GzId2, Len(chunk)>> \o chunk \o <<Crc(chunk), ISize(chunk)>>

\* the length of the member a stream starts with, 0 when it starts with none
MemberLen(s) ==
    IF Len(s) >= 5 /\ s[1] = GzId1 /\ s[2] = GzId2 /\ Len(s) >= s[3] + 5
    THEN LET data == SubSeq(s, 4, 3 + s[3])
         IN  IF s[4 + s[3]] = Crc(data) /\ s[5 + s[3]] = ISize(data)
             THEN s[3] + 5
             ELSE 0
    ELSE 0

\* the decoded members of a multi-member stream, in order; a stream that is
\* not a concatenation of members decodes up to the first malformed byte and
\* ends with the marker <<256>>, which is no sequence of bytes
RECURSIVE Members(_)
Members(s) ==
    IF s = <<>> THEN <<>>
    ELSE LET n == MemberLen(s)
         IN  IF n = 0 THEN << <<256>> >>
             ELSE <<SubSeq(s, 4, n - 2)>> \o Members(SubSeq(s, n + 1, Len(s)))

MultiGzDecode(s) == Concat(Members(s))

\* ------------------------------------------------------------- handles
\* A JoinHandle of a compression job: pending with its chunk, or resolved
\* with the compressed bytes.
Pending(chunk) == [done |-> FALSE, chunk |-> chunk, buffer |-> <<>>]
Resolved(h) == [done |-> TRUE, chunk |-> <<>>, buffer |-> GzEncode(h.chunk)]
NoTask == [done |-> TRUE, chunk |-> <<>>, buffer |-> <<>>]

\* the number of jobs still running among the handles hs
Running(hs) == Cardinality({i \in 1..Len(hs) : ~hs[i].done})

\* ------------------------------------------------------------- channels
\* tokio::sync::mpsc::channel(num_threads): a send completes when the
\* channel holds fewer than num_threads messages
\* (defect: a channel that takes one message more than its capacity)
HasCapacityOneMore(q) == Len(q) <= num_threads
HasCapacity(q) == Len(q) < num_threads
\* the channel is first in, first out
\* (defect: a channel that delivers the newest message first)
ChanSendFront(q, x) == <<x>> \o q
ChanSend(q, x) == Append(q, x)
ChanFront(q) == Head(q)

\* the caller holds tx until finish drops it or ParGz is dropped
\* (defect: dropping the ParGz leaves tx alive)
TxStaysAfterDrop == fe_pc \notin {"finish_join", "done"}
TxOpen == fe_pc \notin {"finish_join", "done", "dropped"}
\* the compressor task owns rx and out_sender until it completes
\* (defect: rx outlives the compressor task, so a send never fails)
RxNeverDropped == TRUE
RxOpen == d_pc # "done"
\* (defect: out_sender outlives the compressor task, so the emit channel never closes)
OutTxNeverDropped == TRUE
OutTxOpen == d_pc # "done"
\* the writer task owns out_receiver until it completes
OutRxOpen == w_pc # "done"

\* ------------------------------------------------------------- return values
None == [op |-> "none", res |-> "none", n |-> 0]
Returned(op, res, n) == [op |-> op, res |-> res, n |-> n]

\* ------------------------------------------------------------- Init
Init ==
    /\ num_threads \in 1..MaxThreads
    /\ buffer_size \in 1..MaxBufferSize
    /\ fail_on \in 0..MaxFailOn
    /\ buffer = <<>>
    /\ fe_pc = "idle"
    /\ b = <<>>
    /\ buf_len = 0
    /\ ret = None
    /\ ingest = <<>>
    /\ d_pc = "recv"
    /\ task = NoTask
    /\ d_res = "none"
    /\ emit = <<>>
    /\ w_pc = "recv"
    /\ w_chunk = NoTask
    /\ w_res = "none"
    /\ c_pc = "await_compressor"
    /\ c_res = "none"
    /\ out = <<>>
    /\ write_alls = 0
    /\ flushes = 0
    /\ detached = 0
    /\ nbytes = 0
    /\ nflush = 0
    /\ flush_at = {}
    /\ oversize = FALSE
    /\ sent = <<>>

\* ------------------------------------------------------------- front end
\* self.buffer.len() > self.buffer_size
\* (defects: the comparison off by one, either way)
NeedsSplitAtSize(buf) == Len(buf) >= buffer_size
NeedsSplitLate(buf) == Len(buf) > buffer_size + 1
NeedsSplit(buf) == Len(buf) > buffer_size
\* self.buffer.split_to(at): the prefix, and what stays
\* (defect: the block sent is one byte short of the prefix taken)
SplitHeadShort(buf, at) == SubSeq(buf, 1, at - 1)
SplitHead(buf, at) == SubSeq(buf, 1, at)
\* (defect: the byte at the split point is lost)
SplitRestSkipsOne(buf, at) == SubSeq(buf, at + 2, Len(buf))
SplitRest(buf, at) == SubSeq(buf, at + 1, Len(buf))
\* self.buffer.split(): everything, leaving the buffer empty
\* (defect: flush sends an empty block and keeps the bytes)
SplitKeepsAll(buf) == <<>>
\* (defect: flush takes one block, as write does, instead of everything)
SplitOneBlock(buf) ==
    SubSeq(buf, 1, IF Len(buf) < buffer_size THEN Len(buf) ELSE buffer_size)
Split(buf) == buf

\* write(buf) up to its send
Write(n) ==
    /\ fe_pc = "idle"
    /\ nbytes + n <= MaxBytes
    /\ LET full == buffer \o Slice(nbytes, n)
       IN  IF NeedsSplit(full)
           THEN /\ b' = SplitHead(full, buffer_size)
                /\ buffer' = SplitRest(full, buffer_size)
                /\ fe_pc' = "write_send"
                /\ buf_len' = n
                /\ ret' = None
           ELSE /\ buffer' = full
                /\ ret' = Returned("write", "Ok", n)
                /\ UNCHANGED <<b, fe_pc, buf_len>>
    /\ nbytes' = nbytes + n
    /\ oversize' = (oversize \/ n > buffer_size)
    /\ UNCHANGED <<cfg_vars, ingest, d_vars, emit, w_vars, c_vars, sink_vars,
                   detached, nflush, flush_at, sent>>

\* block_on(self.tx.send(b)) of write completes
WriteSendOk ==
    /\ fe_pc = "write_send"
    /\ RxOpen
    /\ HasCapacity(ingest)
    /\ ingest' = ChanSend(ingest, b)
    /\ sent' = Append(sent, b)
    /\ ret' = Returned("write", "Ok", buf_len)
    /\ fe_pc' = "idle"
    /\ b' = <<>>
    /\ buf_len' = 0
    /\ UNCHANGED <<cfg_vars, buffer, d_vars, emit, w_vars, c_vars, sink_vars,
                   detached, nbytes, nflush, flush_at, oversize>>

\* block_on(self.tx.send(b)) of write fails: rx is gone
WriteSendErr ==
    /\ fe_pc = "write_send"
    /\ ~RxOpen
    /\ ret' = Returned("write", "IoSend", 0)
    /\ fe_pc' = "idle"
    /\ b' = <<>>
    /\ buf_len' = 0
    /\ UNCHANGED <<cfg_vars, buffer, ingest, d_vars, emit, w_vars, c_vars,
                   sink_vars, detached, nbytes, nflush, flush_at, oversize, sent>>

\* flush() up to its send: self.buffer.split()
Flush ==
    /\ fe_pc = "idle"
    /\ nflush < MaxFlush
    /\ b' = Split(buffer)
    /\ buffer' = SplitRest(buffer, Len(Split(buffer)))
    /\ fe_pc' = "flush_send"
    /\ ret' = None
    /\ nflush' = nflush + 1
    /\ flush_at' = flush_at \cup {nbytes}
    /\ UNCHANGED <<cfg_vars, buf_len, ingest, d_vars, emit, w_vars, c_vars,
                   sink_vars, detached, nbytes, oversize, sent>>

FlushSendOk ==
    /\ fe_pc = "flush_send"
    /\ RxOpen
    /\ HasCapacity(ingest)
    /\ ingest' = ChanSend(ingest, b)
    /\ sent' = Append(sent, b)
    /\ ret' = Returned("flush", "Ok", 0)
    /\ fe_pc' = "idle"
    /\ b' = <<>>
    /\ UNCHANGED <<cfg_vars, buffer, buf_len, d_vars, emit, w_vars, c_vars,
                   sink_vars, detached, nbytes, nflush, flush_at, oversize>>

FlushSendErr ==
    /\ fe_pc = "flush_send"
    /\ ~RxOpen
    /\ ret' = Returned("flush", "IoSend", 0)
    /\ fe_pc' = "idle"
    /\ b' = <<>>
    /\ UNCHANGED <<cfg_vars, buffer, buf_len, ingest, d_vars, emit, w_vars,
                   c_vars, sink_vars, detached, nbytes, nflush, flush_at, oversize, sent>>

\* finish(): self.flush()? up to its send
Finish ==
    /\ fe_pc = "idle"
    /\ b' = Split(buffer)
    /\ buffer' = SplitRest(buffer, Len(Split(buffer)))
    /\ fe_pc' = "finish_flush"
    /\ ret' = None
    /\ UNCHANGED <<cfg_vars, buf_len, ingest, d_vars, emit, w_vars, c_vars,
                   sink_vars, detached, nbytes, nflush, flush_at, oversize, sent>>

\* the flush of finish succeeds; drop(self.tx)
FinishFlushOk ==
    /\ fe_pc = "finish_flush"
    /\ RxOpen
    /\ HasCapacity(ingest)
    /\ ingest' = ChanSend(ingest, b)
    /\ sent' = Append(sent, b)
    /\ fe_pc' = "finish_join"
    /\ b' = <<>>
    /\ UNCHANGED <<cfg_vars, buffer, buf_len, ret, d_vars, emit, w_vars, c_vars,
                   sink_vars, detached, nbytes, nflush, flush_at, oversize>>

\* the flush of finish fails: `?` returns the error; self (tx, handle) is dropped
FinishFlushErr ==
    /\ fe_pc = "finish_flush"
    /\ ~RxOpen
    /\ ret' = Returned("finish", "IoSend", 0)
    /\ fe_pc' = "done"
    /\ b' = <<>>
    /\ UNCHANGED <<cfg_vars, buffer, buf_len, ingest, d_vars, emit, w_vars,
                   c_vars, sink_vars, detached, nbytes, nflush, flush_at, oversize, sent>>

\* self.handle.join().unwrap(): the thread has exited; its value is returned
FinishJoin ==
    /\ fe_pc = "finish_join"
    /\ c_pc = "terminated"
    /\ ret' = Returned("finish", c_res, 0)
    /\ fe_pc' = "done"
    /\ UNCHANGED <<cfg_vars, buffer, b, buf_len, ingest, d_vars, emit, w_vars,
                   c_vars, sink_vars, detached, nbytes, nflush, flush_at, oversize, sent>>

\* ParGz goes out of scope without finish: tx is dropped, the thread detached
Drop ==
    /\ fe_pc = "idle"
    /\ fe_pc' = "dropped"
    /\ buffer' = <<>>
    /\ UNCHANGED <<cfg_vars, b, buf_len, ret, ingest, d_vars, emit, w_vars,
                   c_vars, sink_vars, detached, nbytes, nflush, flush_at, oversize, sent>>

\* ------------------------------------------------------------- compressor task
\* rx.recv().await yields a chunk; spawn_blocking submits its job
CompressorRecv ==
    /\ d_pc = "recv"
    /\ ingest # <<>>
    /\ task' = Pending(ChanFront(ingest))
    /\ ingest' = Tail(ingest)
    /\ d_pc' = "send"
    /\ UNCHANGED <<cfg_vars, fe_vars, d_res, emit, w_vars, c_vars, sink_vars,
                   detached, sent>>

\* (defect: the compressor task awaits the job before it sends the handle)
CompressorSendOkAwaits ==
    /\ d_pc = "send"
    /\ task.done
    /\ OutRxOpen
    /\ HasCapacity(emit)
    /\ emit' = ChanSend(emit, task)
    /\ task' = NoTask
    /\ d_pc' = "recv"
    /\ UNCHANGED <<cfg_vars, fe_vars, ingest, d_res, w_vars, c_vars, sink_vars,
                   detached, sent>>

\* out_sender.send(task).await completes
CompressorSendOk ==
    /\ d_pc = "send"
    /\ OutRxOpen
    /\ HasCapacity(emit)
    /\ emit' = ChanSend(emit, task)
    /\ task' = NoTask
    /\ d_pc' = "recv"
    /\ UNCHANGED <<cfg_vars, fe_vars, ingest, d_res, w_vars, c_vars, sink_vars,
                   detached, sent>>

\* out_sender.send(task).await fails: out_receiver is gone. The task returns
\* ChannelSend; its future is dropped, and with it the handle, rx (and the
\* chunks still in the channel) and out_sender
CompressorSendErr ==
    /\ d_pc = "send"
    /\ ~OutRxOpen
    /\ d_res' = "ChannelSend"
    /\ d_pc' = "done"
    /\ detached' = detached + Running(<<task>>)
    /\ task' = NoTask
    /\ ingest' = <<>>
    /\ UNCHANGED <<cfg_vars, fe_vars, emit, w_vars, c_vars, sink_vars, sent>>

\* rx.recv().await yields None: every Sender is dropped and the channel empty
CompressorEnd ==
    /\ d_pc = "recv"
    /\ ingest = <<>>
    /\ ~TxOpen
    /\ d_res' = "Ok"
    /\ d_pc' = "done"
    /\ UNCHANGED <<cfg_vars, fe_vars, ingest, task, emit, w_vars, c_vars,
                   sink_vars, detached, sent>>

\* ------------------------------------------------------------- compression jobs
\* the job of the handle the compressor task holds resolves
JobResolveTask ==
    /\ ~task.done
    /\ task' = Resolved(task)
    /\ UNCHANGED <<cfg_vars, fe_vars, ingest, d_pc, d_res, emit, w_vars, c_vars,
                   sink_vars, detached, sent>>

\* the job of a handle in the emit channel resolves
JobResolveEmit ==
    /\ \E i \in 1..Len(emit) :
          /\ ~emit[i].done
          /\ emit' = [emit EXCEPT ![i] = Resolved(emit[i])]
    /\ UNCHANGED <<cfg_vars, fe_vars, ingest, d_vars, w_vars, c_vars, sink_vars,
                   detached, sent>>

\* the job of the handle the writer task awaits resolves
JobResolveAwaited ==
    /\ ~w_chunk.done
    /\ w_chunk' = Resolved(w_chunk)
    /\ UNCHANGED <<cfg_vars, fe_vars, ingest, d_vars, emit, w_pc, w_res, c_vars,
                   sink_vars, detached, sent>>

\* a job whose handle was dropped finishes
JobResolveDetached ==
    /\ detached > 0
    /\ detached' = detached - 1
    /\ UNCHANGED <<cfg_vars, fe_vars, ingest, d_vars, emit, w_vars, c_vars,
                   sink_vars, sent>>

\* ------------------------------------------------------------- writer task
\* block_on(out_receiver.recv()) yields a handle
WriterRecv ==
    /\ w_pc = "recv"
    /\ emit # <<>>
    /\ w_chunk' = ChanFront(emit)
    /\ emit' = Tail(emit)
    /\ w_pc' = "await"
    /\ UNCHANGED <<cfg_vars, fe_vars, ingest, d_vars, w_res, c_vars, sink_vars,
                   detached, sent>>

\* the underlying writer fails on its fail_on-th write_all
SinkFails(k) == k = fail_on

\* (defect: the writer task records the failure of write_all and goes on
\* with the next handle instead of returning)
WriterWriteGoesOn ==
    /\ w_pc = "await"
    /\ w_chunk.done
    /\ write_alls' = write_alls + 1
    /\ w_chunk' = NoTask
    /\ w_pc' = "recv"
    /\ IF SinkFails(write_alls + 1)
       THEN /\ w_res' = "Io"
            /\ UNCHANGED out
       ELSE /\ out' = out \o w_chunk.buffer
            /\ UNCHANGED w_res
    /\ UNCHANGED <<cfg_vars, fe_vars, ingest, d_vars, c_vars, flushes, sent,
                   emit, detached>>

\* block_on(chunk) yields the compressed bytes; writer.write_all(&chunk)
WriterWrite ==
    /\ w_pc = "await"
    /\ w_chunk.done
    /\ write_alls' = write_alls + 1
    /\ w_chunk' = NoTask
    /\ IF SinkFails(write_alls + 1)
       THEN \* `?` returns the io::Error; out_receiver and its handles are dropped
            /\ w_res' = "Io"
            /\ w_pc' = "done"
            /\ detached' = detached + Running(emit)
            /\ emit' = <<>>
            /\ UNCHANGED out
       ELSE /\ out' = out \o w_chunk.buffer
            /\ w_pc' = "recv"
            /\ UNCHANGED <<w_res, emit, detached>>
    /\ UNCHANGED <<cfg_vars, fe_vars, ingest, d_vars, c_vars, flushes, sent>>

\* block_on(out_receiver.recv()) yields None; writer.flush(); Ok(())
WriterEnd ==
    /\ w_pc = "recv"
    /\ emit = <<>>
    /\ ~OutTxOpen
    /\ flushes' = flushes + 1
    /\ w_res' = "Ok"
    /\ w_pc' = "done"
    /\ UNCHANGED <<cfg_vars, fe_vars, ingest, d_vars, emit, w_chunk, c_vars, out,
                   write_alls, detached, sent>>

\* ------------------------------------------------------------- coordinator
\* compressor.await??
CoordAwaitCompressor ==
    /\ c_pc = "await_compressor"
    /\ d_pc = "done"
    /\ IF d_res = "Ok"
       THEN /\ c_pc' = "await_writer"
            /\ UNCHANGED c_res
       ELSE /\ c_res' = d_res
            /\ c_pc' = "shutdown"
    /\ UNCHANGED <<cfg_vars, fe_vars, ingest, d_vars, emit, w_vars, sink_vars,
                   detached, sent>>

\* writer_task.await??; Ok(())
CoordAwaitWriter ==
    /\ c_pc = "await_writer"
    /\ w_pc = "done"
    /\ c_res' = w_res
    /\ c_pc' = "shutdown"
    /\ UNCHANGED <<cfg_vars, fe_vars, ingest, d_vars, emit, w_vars, sink_vars,
                   detached, sent>>

\* rt is dropped at the end of run, which waits for the blocking pool (the
\* writer task and the compression jobs); then the thread exits
CoordExit ==
    /\ c_pc = "shutdown"
    /\ w_pc = "done"
    /\ detached = 0
    /\ c_pc' = "terminated"
    /\ UNCHANGED <<cfg_vars, fe_vars, ingest, d_vars, emit, w_vars, c_res,
                   sink_vars, detached, sent>>

\* ------------------------------------------------------------- specification
Next ==
    \/ \E n \in 0..MaxSlice : Write(n)
    \/ WriteSendOk
    \/ WriteSendErr
    \/ Flush
    \/ FlushSendOk
    \/ FlushSendErr
    \/ Finish
    \/ FinishFlushOk
    \/ FinishFlushErr
    \/ FinishJoin
    \/ Drop
    \/ CompressorRecv
    \/ CompressorSendOk
    \/ CompressorSendErr
    \/ CompressorEnd
    \/ JobResolveTask
    \/ JobResolveEmit
    \/ JobResolveAwaited
    \/ JobResolveDetached
    \/ WriterRecv
    \/ WriterWrite
    \/ WriterEnd
    \/ CoordAwaitCompressor
    \/ CoordAwaitWriter
    \/ CoordExit

Spec == Init /\ [][Next]_vars

\* the tasks of ParGz::run and the compression jobs
Pipeline ==
    \/ CompressorRecv
    \/ CompressorSendOk
    \/ CompressorSendErr
    \/ CompressorEnd
    \/ JobResolveTask
    \/ JobResolveEmit
    \/ JobResolveAwaited
    \/ JobResolveDetached
    \/ WriterRecv
    \/ WriterWrite
    \/ WriterEnd
    \/ CoordAwaitCompressor
    \/ CoordAwaitWriter
    \/ CoordExit

\* The caller of the tests (test_simple, test_regression, test_all): build,
\* one write of the whole input, finish. Here rx is open whenever the caller
\* sends (OneWriteSendsFindRxOpen below), so the failing sends are left out.
NextOneWrite ==
    \/ \E n \in 0..MaxSlice : ret = None /\ nbytes = 0 /\ Write(n)
    \/ WriteSendOk
    \/ ret.op = "write" /\ Finish
    \/ FinishFlushOk
    \/ FinishJoin
    \/ Pipeline

SpecOneWrite == Init /\ [][NextOneWrite]_vars

\* The scheduling of the code: the tokio runtime runs every task that is ready
\* (the compressor task, the writer task, the coordinator's block_on), the
\* blocking pool runs every job submitted to it, and a block_on in the caller
\* returns once its send can complete. The caller is under no obligation to
\* call write, flush or finish, or to drop the ParGz.
CompressorSteps ==
    CompressorRecv \/ CompressorSendOk \/ CompressorSendErr \/ CompressorEnd
JobSteps ==
    JobResolveTask \/ JobResolveEmit \/ JobResolveAwaited \/ JobResolveDetached
WriterSteps == WriterRecv \/ WriterWrite \/ WriterEnd
CoordSteps == CoordAwaitCompressor \/ CoordAwaitWriter \/ CoordExit
CallerCompletes ==
    \/ WriteSendOk \/ WriteSendErr
    \/ FlushSendOk \/ FlushSendErr
    \/ FinishFlushOk \/ FinishFlushErr
    \/ FinishJoin

Fairness ==
    /\ WF_vars(CompressorSteps)
    /\ WF_vars(JobSteps)
    /\ WF_vars(WriterSteps)
    /\ WF_vars(CoordSteps)
    /\ WF_vars(CallerCompletes)

FairSpec == Spec /\ Fairness

\* ------------------------------------------------------------- properties
\* the chunk a handle stands for: its job's input, or what its output decodes to
HandleChunks(h) == IF h.done THEN Members(h.buffer) ELSE <<h.chunk>>

RECURSIVE ChunksOf(_)
ChunksOf(hs) ==
    IF hs = <<>> THEN <<>> ELSE HandleChunks(Head(hs)) \o ChunksOf(Tail(hs))

\* the handles between the compressor task and the underlying writer, oldest first
Handles ==
    (IF w_pc = "await" THEN <<w_chunk>> ELSE <<>>)
    \o emit
    \o (IF d_pc = "send" THEN <<task>> ELSE <<>>)

\* C1: when finish has returned success, decoding the members written to the
\* underlying writer, in the order written, yields exactly the bytes passed to
\* write, in call order.
RoundTrip ==
    (fe_pc = "done" /\ ret = Returned("finish", "Ok", 0))
        => MultiGzDecode(out) = Written

\* finish returned success after three bytes went out as three or more members
RoundTripWitness ==
    /\ fe_pc = "done"
    /\ ret = Returned("finish", "Ok", 0)
    /\ nbytes >= 3
    /\ Len(Members(out)) >= 3
    /\ MultiGzDecode(out) = Written

\* C2: the members written to the underlying writer are, in order, a prefix
\* of the blocks in the order the ingest channel accepted them; and until the
\* writer task fails, the members written followed by the handles the writer
\* awaits, the emit channel holds and the compressor task is sending are such
\* a prefix too, whatever the order in which the jobs resolve.
OrderedEmission ==
    [](LET mem == Members(out)
       IN  /\ IsPrefix(mem, sent)
           /\ w_res # "Io" => IsPrefix(mem \o ChunksOf(Handles), sent))

\* a member is written, the writer awaits a job that has not resolved, and the
\* job behind it in the emit channel has resolved already
OrderedEmissionWitness ==
    /\ Len(Members(out)) >= 1
    /\ w_pc = "await"
    /\ ~w_chunk.done
    /\ emit # <<>>
    /\ emit[1].done
    /\ emit[1].buffer # GzEncode(<<>>)

\* C3: the value finish returns is the value the coordinator returned: success
\* only if ParGz::run returned Ok, and otherwise the error ParGz::run returned.
FinishReturnsRunResult ==
    fe_pc = "done" => (c_pc \in {"shutdown", "terminated"} /\ ret.res = c_res)

\* C4: whenever finish has returned, with success or with an error, the
\* coordinator thread has terminated.
FinishJoinsThread ==
    fe_pc = "done" => c_pc = "terminated"

\* C5: when a write_all of the underlying writer has failed and finish returns
\* the value of ParGz::run, that value is the writer task's I/O error and not
\* the compressor task's later ChannelSend. (A finish that returns the error of
\* its own flush instead is the case of C3 and C4.)
FirstFailureSurfaced ==
    (fe_pc = "done" /\ w_res = "Io" /\ ret.res = c_res) => ret.res = "Io"

\* the number of chunks the ingest channel holds plus the number of handles
\* submitted whose result the writer task has not taken
InFlight == Len(ingest) + Len(Handles)

\* C8, as stated: chunks in the ingest channel plus handles not yet taken by
\* the writer task number at most 2 * num_threads.
BackpressureTwiceThreads ==
    InFlight <= 2 * num_threads

\* C8, amended: they number at most 2 * num_threads + 2: each channel holds
\* num_threads, the compressor task holds one handle it is sending and the
\* writer task one it awaits.
BackpressureBound ==
    InFlight <= 2 * num_threads + 2

\* both channels are full, the compressor task is sending and the writer awaits
BackpressureWitness ==
    /\ Len(ingest) = num_threads
    /\ Len(emit) = num_threads
    /\ d_pc = "send"
    /\ w_pc = "await"
    /\ InFlight = 2 * num_threads + 2

\* C7, as stated: whenever no call is in progress the buffer is strictly
\* shorter than buffer_size.
BufferBelowBlockSize ==
    fe_pc = "idle" => Len(buffer) < buffer_size

\* C7, amended: whenever no call is in progress the buffer is at most
\* buffer_size long, provided no write passed a slice longer than buffer_size.
BufferAtMostBlockSize ==
    (fe_pc = "idle" /\ ~oversize) => Len(buffer) <= buffer_size

\* bytes were written in slices of at most buffer_size, a block was split off
\* and the buffer holds exactly buffer_size bytes
BufferAtMostBlockSizeWitness ==
    /\ fe_pc = "idle"
    /\ ~oversize
    /\ sent # <<>>
    /\ Len(buffer) = buffer_size

\* a step in which a write or flush call returns: from its send, or a write
\* that returns without sending
CallReturns ==
    /\ fe_pc' = "idle"
    /\ ret'.op \in {"write", "flush"}
    /\ \/ fe_pc \in {"write_send", "flush_send"}
       \/ fe_pc = "idle" /\ (ret' # ret \/ nbytes' # nbytes)

\* C6, as stated: once the coordinator thread has terminated, every write call
\* and every flush call returns an I/O failure.
FailsAfterTermination ==
    [][(c_pc = "terminated" /\ CallReturns) => ret'.res = "IoSend"]_vars

\* C6, amended: once the coordinator thread has terminated, rx is closed, so
\* every flush call, and every write call that leaves more than buffer_size
\* bytes in the buffer and so sends a block, returns an I/O failure; a write
\* call that sends no block returns Ok with the slice length and the slice
\* appended.
SendFailsAfterTermination ==
    [][/\ c_pc = "terminated" => ~RxOpen
       /\ (c_pc = "terminated" /\ CallReturns) =>
            \/ ret'.res = "IoSend"
            \/ /\ fe_pc = "idle"
               /\ ret' = Returned("write", "Ok", nbytes' - nbytes)
               /\ buffer' = buffer \o Slice(nbytes, nbytes' - nbytes)
               /\ Len(buffer') <= buffer_size]_vars

\* the thread terminated while the caller could still write, and a flush
\* returned the I/O failure
SendFailsAfterTerminationWitness ==
    /\ c_pc = "terminated"
    /\ fe_pc = "idle"
    /\ ret = Returned("flush", "IoSend", 0)

\* C9: write appends the whole slice; exactly when the buffer is then longer
\* than buffer_size it splits off the first buffer_size bytes, once, keeps the
\* rest in order, and returns only when the ingest channel, having room, has
\* accepted that block; it returns Ok with the slice length.
WriteContract ==
    [][LET n == nbytes' - nbytes
           full == buffer \o Slice(nbytes, n)
       IN  /\ (fe_pc = "idle" /\ fe_pc' = "write_send") =>
                /\ Len(full) > buffer_size
                /\ b' = SubSeq(full, 1, buffer_size)
                /\ buffer' = SubSeq(full, buffer_size + 1, Len(full))
                /\ buf_len' = n
                /\ ingest' = ingest
                /\ ret' = None
           /\ (fe_pc = "idle" /\ fe_pc' = "idle" /\ ret'.op = "write"
                 /\ (ret' # ret \/ nbytes' # nbytes)) =>
                /\ Len(full) <= buffer_size
                /\ buffer' = full
                /\ ingest' = ingest
                /\ ret' = Returned("write", "Ok", n)
           /\ (fe_pc = "write_send" /\ fe_pc' = "idle" /\ ret'.res = "Ok") =>
                /\ Len(ingest) < num_threads
                /\ Len(b) = buffer_size
                /\ ingest' = Append(ingest, b)
                /\ sent' = Append(sent, b)
                /\ buffer' = buffer
                /\ ret' = Returned("write", "Ok", buf_len)
           /\ (fe_pc = "write_send" /\ RxOpen /\ Len(ingest) >= num_threads) =>
                fe_pc' = "write_send"]_vars

\* a write of three bytes returned Ok(3): one block went to the ingest channel
\* and more than buffer_size bytes stay in the buffer
WriteContractWitness ==
    /\ fe_pc = "idle"
    /\ ret = Returned("write", "Ok", 3)
    /\ nbytes = 3
    /\ Len(sent) = 1
    /\ Len(sent[1]) = buffer_size
    /\ Len(buffer) > buffer_size
    /\ sent[1] \o buffer = Written

\* C10: flush takes the whole buffer, whatever its length, and sends it as one
\* block, leaving the buffer empty; it returns Ok only when the ingest channel,
\* having room, has accepted that block, and does not wait for the block to be
\* compressed or written.
FlushContract ==
    [][/\ (fe_pc = "idle" /\ fe_pc' = "flush_send") =>
            /\ b' = buffer
            /\ buffer' = <<>>
            /\ ingest' = ingest
            /\ ret' = None
       /\ (fe_pc = "flush_send" /\ fe_pc' = "idle" /\ ret'.res = "Ok") =>
            /\ Len(ingest) < num_threads
            /\ ingest' = Append(ingest, b)
            /\ sent' = Append(sent, b)
            /\ buffer' = <<>>
            /\ out' = out
            /\ ret' = Returned("flush", "Ok", 0)
       /\ (fe_pc = "flush_send" /\ RxOpen /\ Len(ingest) >= num_threads) =>
            fe_pc' = "flush_send"]_vars

\* flush returned Ok for a block longer than buffer_size that is still in the
\* ingest channel, neither compressed nor written
FlushContractWitness ==
    /\ fe_pc = "idle"
    /\ ret = Returned("flush", "Ok", 0)
    /\ buffer = <<>>
    /\ ingest # <<>>
    /\ Len(ingest[Len(ingest)]) > buffer_size
    /\ ingest[Len(ingest)] = sent[Len(sent)]
    /\ out = <<>>

\* the block holds the k-th byte passed to write
Holds(blk, k) == \E i \in 1..Len(blk) : blk[i] = ByteOf(k)

\* C11: for every flush called after k bytes were written: no member written
\* to the underlying writer holds both byte k and byte k + 1, every member
\* holding one of the first k bytes is written before every member holding a
\* later byte, and once finish has returned Ok some member ends exactly at
\* byte k: the members split into those that decode to the first k bytes and
\* those that decode to the rest.
FlushBoundary ==
    [](LET mem == Members(out)
       IN  \A k \in flush_at :
             /\ \A i \in 1..Len(mem) : ~(Holds(mem[i], k) /\ Holds(mem[i], k + 1))
             /\ \A i, j \in 1..Len(mem) :
                   ((\E p \in 1..k : Holds(mem[i], p))
                      /\ (\E q \in (k + 1)..nbytes : Holds(mem[j], q))) => i < j
             /\ (fe_pc = "done" /\ ret = Returned("finish", "Ok", 0)) =>
                   \E j \in 0..Len(mem) :
                      /\ Concat(SubSeq(mem, 1, j)) = Slice(0, k)
                      /\ Concat(SubSeq(mem, j + 1, Len(mem))) =
                            Slice(k, nbytes - k))

\* finish returned Ok for bytes written, a flush, bytes written: the flush
\* made a member shorter than buffer_size that ends at the flush
FlushBoundaryWitness ==
    /\ fe_pc = "done"
    /\ ret = Returned("finish", "Ok", 0)
    /\ \E k \in flush_at :
          /\ 0 < k
          /\ k < nbytes
          /\ \E i \in 1..Len(Members(out)) :
                LET m == Members(out)[i]
                IN  /\ m # <<>>
                    /\ Len(m) < buffer_size
                    /\ m[Len(m)] = ByteOf(k)

\* the blocks one write of len bytes followed by finish makes
OneWriteBlocks(len) ==
    IF len > buffer_size
    THEN <<Slice(0, buffer_size), Slice(buffer_size, len - buffer_size)>>
    ELSE <<Slice(0, len)>>

\* in SpecOneWrite no send of the caller finds rx closed
OneWriteSendsFindRxOpen ==
    fe_pc \in {"write_send", "finish_flush"} => RxOpen

\* C12: after one write of L bytes and finish, the ingest channel has accepted
\* exactly two blocks, the first buffer_size bytes and the remaining
\* L - buffer_size bytes, when L > buffer_size, and exactly one block of the L
\* bytes otherwise; when finish has returned Ok these are the members written.
SingleWritePartition ==
    /\ OneWriteSendsFindRxOpen
    /\ fe_pc \in {"finish_join", "done"} => sent = OneWriteBlocks(nbytes)
    /\ (fe_pc = "done" /\ ret = Returned("finish", "Ok", 0)) =>
          Members(out) = OneWriteBlocks(nbytes)

\* the shape of test_regression: one byte more than buffer_size, written as
\* one full block and one trailing block of one byte
SingleWritePartitionWitness ==
    /\ fe_pc = "done"
    /\ ret = Returned("finish", "Ok", 0)
    /\ nbytes = buffer_size + 1
    /\ Len(Members(out)) = 2
    /\ Len(Members(out)[1]) = buffer_size
    /\ Len(Members(out)[2]) = 1

\* C13: building and immediately calling finish, with no write and no flush
\* before it and an underlying writer that does not fail, returns success;
\* the flush of finish enqueues one empty block, which is written as one
\* empty member: a valid stream that decodes to the empty byte sequence.
EmptyInputLaw ==
    (fe_pc = "done" /\ nbytes = 0 /\ nflush = 0 /\ fail_on = 0) =>
        /\ ret = Returned("finish", "Ok", 0)
        /\ sent = << <<>> >>
        /\ write_alls = 1
        /\ out = GzEncode(<<>>)
        /\ Members(out) = << <<>> >>
        /\ MultiGzDecode(out) = <<>>

\* finish returned after no write: one member of no bytes was written
EmptyInputLawWitness ==
    /\ fe_pc = "done"
    /\ nbytes = 0
    /\ nflush = 0
    /\ fail_on = 0
    /\ ret.op = "finish"
    /\ Len(out) = 5
    /\ flushes = 1

\* the whole pipeline has come to rest: both tasks and every job have
\* finished and the coordinator thread has exited
PipelineTerminated ==
    /\ d_pc = "done"
    /\ w_pc = "done"
    /\ detached = 0
    /\ c_pc = "terminated"

\* C14: under fair scheduling, once the ParGz is dropped without finish (which
\* closes the ingest sender), the compressor task and the writer task finish
\* and the coordinator thread terminates: no task is left waiting forever.
DropTerminates == (fe_pc = "dropped") ~> PipelineTerminated

\* dropped after bytes were sent, and the thread has exited with both tasks Ok
DropTerminatesWitness ==
    /\ fe_pc = "dropped"
    /\ PipelineTerminated
    /\ d_res = "Ok"
    /\ w_res = "Ok"
    /\ Len(sent) >= 1
    /\ MultiGzDecode(out) # Written

\* C15: with an underlying writer that never fails, under fair scheduling:
\* every finish call eventually returns; once the ingest sender is closed the
\* compressor task finishes (which closes the emit sender); once the
\* compressor task has finished the writer task drains the emit channel and
\* finishes; once both have finished the coordinator thread terminates; and a
\* write or flush waiting on a full ingest channel eventually returns.
ShutdownLiveness ==
    /\ (fail_on = 0 /\ fe_pc = "finish_flush")
          ~> (fe_pc = "done" /\ ret.op = "finish")
    /\ (fail_on = 0 /\ ~TxOpen) ~> (d_pc = "done" /\ ~OutTxOpen)
    /\ (fail_on = 0 /\ d_pc = "done") ~> (w_pc = "done" /\ emit = <<>>)
    /\ (fail_on = 0 /\ d_pc = "done" /\ w_pc = "done") ~> (c_pc = "terminated")
    /\ (fail_on = 0 /\ fe_pc \in {"write_send", "flush_send"})
          ~> (fe_pc = "idle" /\ ret.res = "Ok")

\* finish has returned Ok after three or more blocks went through a pipeline
\* of one worker, and every task has come to rest
ShutdownLivenessWitness ==
    /\ fail_on = 0
    /\ num_threads = 1
    /\ fe_pc = "done"
    /\ ret = Returned("finish", "Ok", 0)
    /\ PipelineTerminated
    /\ Len(sent) >= 3
    /\ flushes = 1

\* what holds of the underlying writer's flush in every state
WriterFlushState ==
    /\ flushes <= 1
    /\ (flushes = 1) <=> (w_res = "Ok")
    /\ w_res = "Ok" =>
          /\ w_pc = "done"
          /\ ~OutTxOpen
          /\ emit = <<>>
          /\ w_chunk = NoTask
          /\ write_alls = Len(sent)
          /\ Members(out) = sent
          /\ \A k \in 1..write_alls : ~SinkFails(k)
    /\ w_res = "Io" =>
          /\ w_pc = "done"
          /\ flushes = 0
          /\ SinkFails(write_alls)
    /\ w_pc = "done" => w_res \in {"Ok", "Io"}

\* C16: the writer task calls flush on the underlying writer at most once,
\* and when it does the emit channel is closed and empty, every handle was
\* taken and its result written, and no write_all failed; when a write_all
\* fails the writer task ends without flush; once the writer task has ended,
\* either way, no write_all and no flush is made on the underlying writer.
WriterFlushesOnce ==
    /\ []WriterFlushState
    /\ [][w_pc = "done" => UNCHANGED <<out, write_alls, flushes, w_res>>]_vars

\* the first write_all failed while more blocks were on their way; the
\* pipeline has come to rest without another write_all and without a flush
WriterFlushesOnceWitness ==
    /\ w_res = "Io"
    /\ Len(sent) > write_alls
    /\ PipelineTerminated
    /\ flushes = 0
    /\ out = <<>>

\* C17: the compressor task does not await a job before sending its handle:
\* whenever it holds a handle and the emit channel is open with a free slot,
\* the send can complete, whether the job has resolved or not; and a step
\* that neither sends to the emit channel nor receives from it leaves every
\* handle of the channel in its place, as it was or resolved to the member of
\* its own chunk, whichever job it is that resolves.
DispatchNeverAwaits ==
    /\ []((d_pc = "send" /\ OutRxOpen /\ HasCapacity(emit))
            => ENABLED CompressorSendOk)
    /\ [][Len(emit') = Len(emit) =>
            \A i \in 1..Len(emit) :
               \/ emit'[i] = emit[i]
               \/ ~emit[i].done /\ emit'[i] = Resolved(emit[i])]_vars

\* a job still running sits in the emit channel ahead of the handle of a
\* later job that has already resolved, and two jobs or more are running
DispatchNeverAwaitsWitness ==
    /\ Running(Handles) >= 2
    /\ \E i, j \in 1..Len(emit) : i < j /\ ~emit[i].done /\ emit[j].done

\* the caller is inside block_on(self.tx.send(..))
CallerSending == fe_pc \in {"write_send", "flush_send", "finish_flush"}

\* C18: the ingest channel never holds more than num_threads blocks and the
\* emit channel never more than num_threads handles. Only the caller's send
\* adds to the ingest channel and only the compressor task's recv takes from
\* it; only the compressor task's send adds to the emit channel and only the
\* writer task's recv takes from it (a receiver that is dropped discards what
\* its channel holds). A send leaves its await only when its channel is not
\* full, so a send to a full channel waits for the consumer to take a message.
QueueCapacity ==
    /\ [](Len(ingest) <= num_threads /\ Len(emit) <= num_threads)
    /\ [][ingest' # ingest =>
            \/ /\ CallerSending
               /\ fe_pc' # fe_pc
               /\ Len(ingest) < num_threads
               /\ ingest' = Append(ingest, b)
            \/ /\ d_pc = "recv"
               /\ d_pc' = "send"
               /\ ingest' = Tail(ingest)
               /\ task'.chunk = Head(ingest)
            \/ /\ d_pc' = "done"
               /\ ingest' = <<>>]_vars
    /\ [][Len(emit') # Len(emit) =>
            \/ /\ d_pc = "send"
               /\ d_pc' = "recv"
               /\ Len(emit) < num_threads
               /\ emit' = Append(emit, task)
            \/ /\ w_pc = "recv"
               /\ w_pc' = "await"
               /\ emit' = Tail(emit)
               /\ w_chunk' = Head(emit)
            \/ /\ w_pc' = "done"
               /\ emit' = <<>>]_vars
    /\ [][(CallerSending /\ fe_pc' # fe_pc) => Len(ingest) < num_threads]_vars
    /\ [][(d_pc = "send" /\ d_pc' # d_pc) => Len(emit) < num_threads]_vars

\* both channels are full and open, and both senders are waiting: the caller
\* in the send of a write, the compressor task in the send of a handle
QueueCapacityWitness ==
    /\ fe_pc = "write_send"
    /\ RxOpen
    /\ Len(ingest) = num_threads
    /\ d_pc = "send"
    /\ OutRxOpen
    /\ Len(emit) = num_threads

\* every byte the pipeline holds, oldest first: what the members written
\* decode to, the chunks of the handles (the writer task's, the emit
\* channel's, the compressor task's), the ingest channel, the block the
\* caller is sending, and the caller's buffer
Conserved ==
    MultiGzDecode(out)
    \o Concat(ChunksOf(Handles))
    \o Concat(ingest)
    \o b
    \o buffer

\* no write_all and no send has failed
NoFailure ==
    /\ w_res # "Io"
    /\ d_res # "ChannelSend"
    /\ ret.res \notin {"Io", "IoSend", "ChannelSend"}

\* C19 as stated: in every state in which no failure has occurred, the bytes
\* the pipeline holds are exactly the bytes passed to write so far.
ByteConservationAlways == NoFailure => Conserved = Written

\* C19: in every state in which no failure has occurred and the ParGz has not
\* been dropped without finish, the bytes the pipeline holds, oldest first,
\* are exactly the bytes passed to write so far.
ByteConservation ==
    []((NoFailure /\ fe_pc # "dropped") => Conserved = Written)

\* the bytes written are spread over the output, the handles, the ingest
\* channel and the block being sent
ByteConservationWitness ==
    /\ NoFailure
    /\ fe_pc # "dropped"
    /\ MultiGzDecode(out) # <<>>
    /\ Concat(ChunksOf(Handles)) # <<>>
    /\ Concat(ingest) # <<>>
    /\ b # <<>>

\* the compression jobs submitted whose result has not been written to the
\* underlying writer: those of the handles held by the writer task, the emit
\* channel and the compressor task, and those still running after their
\* handle was dropped
Outstanding == Len(Handles) + detached

\* C20: the number of compression jobs submitted whose result has not been
\* written is at most num_threads + 2: num_threads handles in the emit
\* channel, the one the compressor task is sending and the one the writer
\* task awaits.
OutstandingJobsBound == Outstanding <= num_threads + 2

\* the bound is reached with one worker, by three jobs that all still run
OutstandingJobsWitness ==
    /\ num_threads = 1
    /\ Outstanding = 3
    /\ Running(Handles) = 3

====
